---- MODULE Spec2Model ----
(***************************************************************************)
(* A model of WordCounter (src/WordCounter/main.py): the text normalizer,  *)
(* tokenizer, character statistics, analyzer, comparator and report        *)
(* serializer, and the interactive menu loop main() that drives them.      *)
(*                                                                         *)
(* A text is a sequence of characters; a character is a one-character      *)
(* string, except the non-ASCII characters, which are named by their code  *)
(* point ("U+00E9").  A word is a TLA+ string ("the").  A float that the   *)
(* code rounds to two decimals is held as an integer number of hundredths; *)
(* an unrounded quotient of two integers is held as the exact fraction.    *)
(***************************************************************************)
EXTENDS Integers, Sequences, FiniteSets, TLC

(***************************************************************************)
(* Characters                                                              *)
(***************************************************************************)
AsciiLower ==
    <<"a", "b", "c", "d", "e", "f", "g", "h", "i", "j", "k", "l", "m",
      "n", "o", "p", "q", "r", "s", "t", "u", "v", "w", "x", "y", "z">>

AsciiUpper ==
    <<"A", "B", "C", "D", "E", "F", "G", "H", "I", "J", "K", "L", "M",
      "N", "O", "P", "Q", "R", "S", "T", "U", "V", "W", "X", "Y", "Z">>

\* [a-zA-Z]
AsciiLetters ==
    {AsciiLower[i] : i \in DOMAIN AsciiLower} \cup {AsciiUpper[i] : i \in DOMAIN AsciiUpper}

\* [0-9]
AsciiDigits ==
    {"0", "1", "2", "3", "4", "5", "6", "7", "8", "9"}

\* \s of a str pattern, and the characters str.strip() and str.split() drop:
\* space, tab, newline.
Whitespace ==
    {" ", "\t", "\n"}

\* Letters outside ASCII: e-acute, E-acute, and the Kelvin sign, whose
\* lowercase is the ASCII letter k.
NonAsciiLetters ==
    {"U+00E9", "U+00C9", "U+212A"}

\* The number of bytes of the UTF-8 encoding of character c.
Utf8Len(c) ==
    CASE c \in {"U+00E9", "U+00C9"} -> 2
      [] c = "U+212A" -> 3
      [] OTHER -> 1

\* str.lower() on one character.
lower_char(c) ==
    CASE \E i \in DOMAIN AsciiUpper : AsciiUpper[i] = c ->
             AsciiLower[CHOOSE i \in DOMAIN AsciiUpper : AsciiUpper[i] = c]
      [] c = "U+00C9" -> "U+00E9"
      [] c = "U+212A" -> "k"
      [] OTHER -> c

\* text.lower()
str_lower(text) ==
    [i \in 1..Len(text) |-> lower_char(text[i])]

\* re.sub(r'[^a-zA-Z\s]', ' ', text)
sub_non_letters(text) ==
    [i \in 1..Len(text) |->
        IF text[i] \in AsciiLetters \cup Whitespace THEN text[i] ELSE " "]

\* The indices of text that satisfy Keep, in increasing order.
indices_where(text, Keep(_)) ==
    SelectSeq([i \in 1..Len(text) |-> i], Keep)

\* re.sub(r'\s+', ' ', text): every maximal run of whitespace becomes one space.
sub_whitespace_runs(text) ==
    LET ends_run_or_word(i) ==
            text[i] \notin Whitespace \/ i = Len(text) \/ text[i + 1] \notin Whitespace
        kept == indices_where(text, ends_run_or_word)
    IN  [j \in 1..Len(kept) |->
            IF text[kept[j]] \in Whitespace THEN " " ELSE text[kept[j]]]

\* text.strip()
str_strip(text) ==
    LET solid == {i \in 1..Len(text) : text[i] \notin Whitespace}
    IN  IF solid = {} THEN <<>>
        ELSE SubSeq(text, CHOOSE i \in solid : \A j \in solid : i <= j,
                          CHOOSE i \in solid : \A j \in solid : i >= j)

\* clean_text without the conversion to lowercase.
clean_text_no_lower(text) ==
    str_strip(sub_whitespace_runs(sub_non_letters(text)))

\* clean_text with whitespace collapsed before the other characters are
\* replaced by spaces.
clean_text_collapse_first(text) ==
    str_strip(sub_non_letters(sub_whitespace_runs(str_lower(text))))

\* WordCounter.clean_text
clean_text(text) ==
    str_strip(sub_whitespace_runs(sub_non_letters(str_lower(text))))

(***************************************************************************)
(* Splitting                                                               *)
(***************************************************************************)
\* The elements of a set of integers, in increasing order.
ascending(S) ==
    [k \in 1..Cardinality(S) |-> CHOOSE i \in S : Cardinality({j \in S : j <= i}) = k]

\* The fragments of text around the separators, given where each separator
\* starts and ends, in order: before the first, between neighbours, after
\* the last.
fragments_around(text, starts, ends) ==
    [k \in 1..(Len(starts) + 1) |->
        SubSeq(text, IF k = 1 THEN 1 ELSE ends[k - 1] + 1,
                     IF k = Len(starts) + 1 THEN Len(text) ELSE starts[k] - 1)]

\* re.split of a pattern [Sep]+ : the fragments between the maximal runs of
\* separator characters, the empty ones at either end included.
re_split(text, Sep) ==
    LET starts == {i \in 1..Len(text) :
                      text[i] \in Sep /\ (i = 1 \/ text[i - 1] \notin Sep)}
        ends   == {i \in 1..Len(text) :
                      text[i] \in Sep /\ (i = Len(text) \/ text[i + 1] \notin Sep)}
    IN  fragments_around(text, ascending(starts), ascending(ends))

\* Where the non-overlapping occurrences of two consecutive newlines start,
\* found left to right: i starts one when text[i..i+1] is "\n\n" and the
\* newlines that immediately precede i pair up among themselves.
RECURSIVE newlines_before(_, _)
newlines_before(text, i) ==
    IF i > 1 /\ text[i - 1] = "\n" THEN 1 + newlines_before(text, i - 1) ELSE 0

\* text.split('\n\n')
split_blank_lines(text) ==
    LET starts == {i \in 1..(Len(text) - 1) :
                      /\ text[i] = "\n" /\ text[i + 1] = "\n"
                      /\ newlines_before(text, i) % 2 = 0}
    IN  fragments_around(text, ascending(starts), ascending({i + 1 : i \in starts}))

\* [s.strip() for s in fragments if s.strip()]
RECURSIVE strip_nonblank(_)
strip_nonblank(fragments) ==
    IF fragments = <<>> THEN <<>>
    ELSE IF str_strip(Head(fragments)) # <<>>
         THEN <<str_strip(Head(fragments))>> \o strip_nonblank(Tail(fragments))
         ELSE strip_nonblank(Tail(fragments))

\* The characters of a word joined into one string.
RECURSIVE Str(_)
Str(chars) ==
    IF chars = <<>> THEN "" ELSE Head(chars) \o Str(Tail(chars))

\* text.split(): the non-empty fragments between runs of whitespace, as words.
RECURSIVE words_of(_)
words_of(fragments) ==
    IF fragments = <<>> THEN <<>>
    ELSE IF Head(fragments) # <<>>
         THEN <<Str(Head(fragments))>> \o words_of(Tail(fragments))
         ELSE words_of(Tail(fragments))

str_split(text) ==
    words_of(re_split(text, Whitespace))

(***************************************************************************)
(* Tokenizer                                                               *)
(***************************************************************************)
\* WordCounter.__init__
stop_words ==
    {"the", "a", "an", "and", "or", "but", "in", "on", "at", "to", "for",
     "of", "with", "by", "is", "are", "was", "were", "be", "been", "being",
     "have", "has", "had", "do", "does", "did", "will", "would", "could",
     "should", "may", "might", "must", "can", "this", "that", "these",
     "those", "i", "you", "he", "she", "it", "we", "they", "me", "him",
     "her", "us", "them", "my", "your", "his", "its", "our", "their"}

not_stop_word(word) ==
    word \notin stop_words

non_empty(word) ==
    word # ""

\* WordCounter.extract_words
extract_words(text, include_stop_words) ==
    LET words == str_split(clean_text(text))
        kept == IF include_stop_words THEN words ELSE SelectSeq(words, not_stop_word)
    IN  SelectSeq(kept, non_empty)

(***************************************************************************)
(* Character statistics                                                    *)
(***************************************************************************)
\* len(text.replace(' ', ''))
len_without_spaces(text) ==
    Len(SelectSeq(text, LAMBDA c : c # " "))

\* len(re.sub(r'[^a-zA-Z]', '', text))
len_letters(text) ==
    Len(SelectSeq(text, LAMBDA c : c \in AsciiLetters))

\* len(re.sub(r'[^0-9]', '', text))
len_digits(text) ==
    Len(SelectSeq(text, LAMBDA c : c \in AsciiDigits))

\* text.count(' ')
count_spaces(text) ==
    Cardinality({i \in 1..Len(text) : text[i] = " "})

\* The punctuation count with letters classed as Unicode does: [\w\s].
len_punctuation_unicode(text) ==
    Len(SelectSeq(text, LAMBDA c : c \notin AsciiLetters \cup AsciiDigits
                                         \cup Whitespace \cup NonAsciiLetters))

\* len(re.sub(r'[a-zA-Z0-9\s]', '', text))
len_punctuation(text) ==
    Len(SelectSeq(text, LAMBDA c : c \notin AsciiLetters \cup AsciiDigits \cup Whitespace))

\* WordCounter.count_characters
count_characters(text) ==
    [total_chars      |-> Len(text),
     chars_no_spaces  |-> len_without_spaces(text),
     alphabetic_chars |-> len_letters(text),
     numeric_chars    |-> len_digits(text),
     spaces           |-> count_spaces(text),
     punctuation      |-> len_punctuation(text)]

(***************************************************************************)
(* Floats.  round(n / d, 2) for integers n >= 0, d > 0, in hundredths.     *)
(* n / d is the double nearest the quotient; round() rounds the exact      *)
(* value of that double, half to even.  So a quotient that is halfway      *)
(* between two hundredths goes the way the double's error points, and to   *)
(* the even hundredth only when the double is exact.                       *)
(***************************************************************************)
RECURSIVE pow2_mod(_, _)
pow2_mod(k, m) ==
    IF k = 0 THEN 1 % m ELSE (2 * pow2_mod(k - 1, m)) % m

RECURSIVE exponent_up(_, _, _)
exponent_up(n, d, e) ==
    IF d * 2 <= n THEN exponent_up(n, d * 2, e + 1) ELSE e

RECURSIVE exponent_down(_, _, _)
exponent_down(n, d, j) ==
    IF n * 2 < d THEN exponent_down(n * 2, d, j + 1) ELSE j

\* e with 2^e <= n / d < 2^(e + 1), for n > 0.
binary_exponent(n, d) ==
    IF n >= d THEN exponent_up(n, d, 0) ELSE 0 - exponent_down(n, d, 1)

\* The sign of (the double n / d) - (the quotient n / d): the quotient scaled
\* to a 53-bit significand is rounded to the nearest integer, ties to even.
float_error_sign(n, d) ==
    IF n = 0 THEN 0
    ELSE LET k  == 52 - binary_exponent(n, d)
             r2 == (n * pow2_mod(k, 2 * d)) % (2 * d)
             r  == r2 % d
         IN  CASE r = 0 -> 0
               [] 2 * r < d -> -1
               [] 2 * r > d -> 1
               [] OTHER -> IF r2 >= d THEN 1 ELSE -1

\* n / d cut to two decimals instead of rounded.
round2_truncated(n, d) ==
    (100 * n) \div d

\* round(n / d, 2), in hundredths.
round2(n, d) ==
    LET a   == (100 * n) \div d
        rem == (100 * n) % d
    IN  CASE 2 * rem < d -> a
          [] 2 * rem > d -> a + 1
          [] OTHER ->
               CASE float_error_sign(n, d) > 0 -> a + 1
                 [] float_error_sign(n, d) < 0 -> a
                 [] OTHER -> IF a % 2 = 0 THEN a ELSE a + 1

(***************************************************************************)
(* Analyzer                                                                *)
(***************************************************************************)
\* Counter(words): the (word, count) items in the order the words were first
\* inserted, which is the order a dict keeps.
RECURSIVE counter_update(_, _)
counter_update(items, words) ==
    IF words = <<>> THEN items
    ELSE LET w == Head(words)
             updated ==
               IF \E i \in DOMAIN items : items[i][1] = w
               THEN [i \in DOMAIN items |->
                       IF items[i][1] = w THEN <<w, items[i][2] + 1>> ELSE items[i]]
               ELSE Append(items, <<w, 1>>)
         IN  counter_update(updated, Tail(words))

Counter(words) ==
    [cls |-> "Counter", items |-> counter_update(<<>>, words)]

\* dict(counter): a new plain dict with the same items.
dict_of(counter) ==
    [cls |-> "dict", items |-> counter.items]

\* mapping.keys(), as a set
keys(mapping) ==
    {mapping.items[i][1] : i \in DOMAIN mapping.items}

\* mapping[word], 0 for a missing word as a Counter answers
count_of(mapping, word) ==
    IF word \in keys(mapping)
    THEN mapping.items[CHOOSE i \in DOMAIN mapping.items : mapping.items[i][1] = word][2]
    ELSE 0

\* A step of a sort that puts an item before the items of equal count.
insert_by_count_unstable(sorted, item) ==
    LET after == {i \in DOMAIN sorted : sorted[i][2] > item[2]}
        n == Cardinality(after)
    IN  SubSeq(sorted, 1, n) \o <<item>> \o SubSeq(sorted, n + 1, Len(sorted))

\* One step of a stable sort by count, descending: item goes after every
\* item whose count is at least its own.
insert_by_count(sorted, item) ==
    LET after == {i \in DOMAIN sorted : sorted[i][2] >= item[2]}
        n == Cardinality(after)
    IN  SubSeq(sorted, 1, n) \o <<item>> \o SubSeq(sorted, n + 1, Len(sorted))

RECURSIVE sorted_by_count(_, _)
sorted_by_count(sorted, items) ==
    IF items = <<>> THEN sorted
    ELSE sorted_by_count(insert_by_count(sorted, Head(items)), Tail(items))

\* Counter.most_common(n): sorted(items, key=count, reverse=True)[:n]
most_common(counter, n) ==
    LET all == sorted_by_count(<<>>, counter.items)
    IN  SubSeq(all, 1, IF n < Len(all) THEN n ELSE Len(all))

\* The reading speed, in words per minute.
WordsPerMinute ==
    200

\* The number of most common words reported.
TopN ==
    10

RECURSIVE sum_len(_)
sum_len(words) ==
    IF words = <<>> THEN 0 ELSE Len(Head(words)) + sum_len(Tail(words))

\* WordCounter.analyze_text
analyze_text(text, include_stop_words) ==
    LET words      == extract_words(text, include_stop_words)
        sentences  == strip_nonblank(re_split(text, {".", "!", "?"}))
        paragraphs == strip_nonblank(split_blank_lines(text))
        word_freq  == Counter(words)
    IN  [word_count           |-> Len(words),
         unique_words         |-> Len(word_freq.items),
         sentence_count       |-> Len(sentences),
         paragraph_count      |-> Len(paragraphs),
         character_stats      |-> count_characters(text),
         word_frequency       |-> word_freq,
         avg_word_length      |-> IF words # <<>>
                                  THEN round2(sum_len(words), Len(words)) ELSE 0,
         avg_sentence_length  |-> IF sentences # <<>>
                                  THEN round2(Len(words), Len(sentences)) ELSE 0,
         reading_time_minutes |-> round2(Len(words), WordsPerMinute),
         most_common_words    |-> most_common(word_freq, TopN)]

(***************************************************************************)
(* File analysis                                                           *)
(***************************************************************************)
\* What the file system holds at a path: nothing, bytes that are not valid
\* UTF-8, or the UTF-8 encoding of a text.
NoFile ==
    [exists |-> FALSE, utf8 |-> FALSE, content |-> <<>>]

BinaryFile ==
    [exists |-> TRUE, utf8 |-> FALSE, content |-> <<>>]

TextFile(text) ==
    [exists |-> TRUE, utf8 |-> TRUE, content |-> text]

\* os.path.getsize(file_path) of a text file: the bytes of its encoding.
RECURSIVE getsize(_)
getsize(text) ==
    IF text = <<>> THEN 0 ELSE Utf8Len(Head(text)) + getsize(Tail(text))

\* The exception that `raise cls(<nargs arguments>)` raises: UnicodeDecodeError
\* takes exactly five arguments, and its constructor raises TypeError when
\* given any other number.
raise_new(cls, nargs) ==
    IF cls = "UnicodeDecodeError" /\ nargs # 5 THEN "TypeError" ELSE cls

\* WordCounter.analyze_file: the exception that leaves the call ("none" when
\* it returns) and the value returned.
analyze_file(file_path, include_stop_words, file) ==
    CASE ~file.exists ->
           [raised |-> raise_new("FileNotFoundError", 1), analysis |-> <<>>]
      [] file.exists /\ ~file.utf8 ->
           [raised |-> raise_new("UnicodeDecodeError", 1), analysis |-> <<>>]
      [] OTHER ->
           [raised   |-> "none",
            analysis |-> [file_path |-> file_path,
                          file_size_bytes |-> getsize(file.content)]
                         @@ analyze_text(file.content, include_stop_words)]

(***************************************************************************)
(* Comparator                                                              *)
(***************************************************************************)
\* list(S): the elements of a set in the order its iteration yields them,
\* which the hash seed of the process decides: any order.
list_of(S) ==
    {order \in [1..Cardinality(S) -> S] :
        \A i, j \in 1..Cardinality(S) : i # j => order[i] # order[j]}

\* seq[:n]
first_n(seq, n) ==
    SubSeq(seq, 1, IF n < Len(seq) THEN n ELSE Len(seq))

\* The number of unique words listed per text.
UniqueShown ==
    10

\* The ratio over the sum of the two vocabulary sizes instead of the union's.
similarity_ratio_over_sum(words1, words2) ==
    IF words1 \cup words2 # {}
    THEN [num |-> Cardinality(words1 \cap words2),
          den |-> Cardinality(words1) + Cardinality(words2)]
    ELSE [num |-> 0, den |-> 1]

\* len(common_words) / len(words1 | words2) if (words1 | words2) else 0
similarity_ratio(words1, words2) ==
    IF words1 \cup words2 # {}
    THEN [num |-> Cardinality(words1 \cap words2), den |-> Cardinality(words1 \cup words2)]
    ELSE [num |-> 0, den |-> 1]

\* words1 - words2
unique_to(words1, words2) ==
    words1 \ words2

\* The size of the first vocabulary instead of the intersection's.
common_words_count_of_first(words1, words2) ==
    Cardinality(words1)

\* len(words1 & words2)
common_words_count(words1, words2) ==
    Cardinality(words1 \cap words2)

\* WordCounter.compare_texts: the results it can return, one per order in
\* which the two sets of unique words are listed.
compare_texts(text1, text2) ==
    LET analysis1 == analyze_text(text1, FALSE)
        analysis2 == analyze_text(text2, FALSE)
        words1 == keys(analysis1.word_frequency)
        words2 == keys(analysis2.word_frequency)
    IN  {[text1_stats        |-> analysis1,
          text2_stats        |-> analysis2,
          unique_to_text1    |-> first_n(list1, UniqueShown),
          unique_to_text2    |-> first_n(list2, UniqueShown),
          common_words_count |-> common_words_count(words1, words2),
          similarity_ratio   |-> similarity_ratio(words1, words2)] :
            list1 \in list_of(unique_to(words1, words2)),
            list2 \in list_of(unique_to(words2, words1))}

(***************************************************************************)
(* Report serializer                                                       *)
(***************************************************************************)
\* The analysis dict after save_analysis has run on it: its word_frequency
\* entry is rebound to a new plain dict.
saved_analysis(analysis) ==
    IF "word_frequency" \in DOMAIN analysis
    THEN [analysis EXCEPT !.word_frequency = dict_of(analysis.word_frequency)]
    ELSE analysis

\* json.dump(analysis, file, indent=2, ensure_ascii=False): a dict becomes an
\* object, which has no class, and a tuple becomes a list.
json_dump(analysis) ==
    [kind |-> "json",
     value |-> IF "word_frequency" \in DOMAIN analysis
               THEN [analysis EXCEPT !.word_frequency = analysis.word_frequency.items]
               ELSE analysis]

\* WordCounter.save_analysis: the file it writes.
save_analysis(analysis, output_file) ==
    [path |-> output_file, content |-> json_dump(saved_analysis(analysis))]

\* WordCounter.create_sample_file: the file it writes.
create_sample_file(filename) ==
    [path |-> filename, content |-> [kind |-> "text", value |-> "sample_text"]]

(***************************************************************************)
(* Inputs                                                                  *)
(***************************************************************************)
\* The sequences over S of length at most n.
SeqsUpTo(S, n) ==
    UNION {[1..k -> S] : k \in 0..n}

\* sep.join(parts)
RECURSIVE str_join(_, _)
str_join(sep, parts) ==
    IF parts = <<>> THEN <<>>
    ELSE IF Len(parts) = 1 THEN Head(parts)
    ELSE Head(parts) \o sep \o str_join(sep, Tail(parts))

\* Every text of at most MaxLen characters over one character of each kind:
\* a stop-word letter, an upper-case letter, a digit, a space, a newline, a
\* sentence terminator, a non-ASCII letter, and a non-ASCII letter whose
\* lowercase is ASCII.
MaxLen ==
    3

CharAlphabet ==
    {"a", "B", "1", " ", "\n", ".", "U+00C9", "U+212A"}

CharTexts ==
    SeqsUpTo(CharAlphabet, MaxLen)

\* Every text of at most MaxSentenceLen characters of words and sentences.
MaxSentenceLen ==
    5

SentenceAlphabet ==
    {"a", "b", "1", "."}

SentenceTexts ==
    SeqsUpTo(SentenceAlphabet, MaxSentenceLen)

\* Texts of TopN distinct one-letter words, then at most MaxTail more words,
\* repeats of the first two or new ones.
MaxTail ==
    3

RankPrefix ==
    <<"b", "c", "d", "e", "f", "g", "h", "j", "k", "l">>

RankTailWords ==
    {"b", "c", "x", "y"}

RankTexts ==
    {str_join(<<" ">>, [i \in 1..Len(RankPrefix \o tail) |-> <<(RankPrefix \o tail)[i]>>]) :
        tail \in SeqsUpTo(RankTailWords, MaxTail)}

\* The texts of the documented scenarios.
FoxText ==
    <<"T", "h", "e", " ", "q", "u", "i", "c", "k", " ", "b", "r", "o", "w", "n", " ",
      "f", "o", "x", ".", " ", "T", "h", "e", " ", "l", "a", "z", "y", " ", "d", "o", "g", "!">>

CharStatsText ==
    <<"a", "b", " ", "1", "2", "!">>

ScenarioTexts ==
    {FoxText, CharStatsText}

Texts ==
    CharTexts \cup SentenceTexts \cup RankTexts \cup ScenarioTexts

\* Texts of at most MaxWords words, for comparison.
MaxWords ==
    2

CompareWords ==
    {<<"c", "a", "t">>, <<"d", "o", "g">>, <<"f", "o", "x">>, <<"t", "h", "e">>}

ComparisonInputs ==
    {str_join(<<" ">>, words) : words \in SeqsUpTo(CompareWords, MaxWords)}

\* Files: none, one that is not UTF-8, and the text files of at most
\* MaxFileLen characters.
MaxFileLen ==
    2

FileAlphabet ==
    {"a", "b", " ", "U+00C9", "U+212A"}

Files ==
    {NoFile, BinaryFile} \cup {TextFile(text) : text \in SeqsUpTo(FileAlphabet, MaxFileLen)}

FilePaths ==
    {"notes.txt"}

OutputFiles ==
    {"analysis.json"}

(***************************************************************************)
(* State                                                                   *)
(***************************************************************************)
VARIABLES
    pc,        \* where the caller, or main(), is
    call,      \* the operation called and its arguments; in main(), the menu
               \* choice of the last iteration and what the user typed
    ret,       \* the value the operation returned
    exc,       \* the exception that left the operation, or main(): "none" if none
    analysis,  \* the analysis dict the caller holds, as it is now
    written,   \* the file the operation wrote
    out        \* what main() printed in its last iteration

vars ==
    <<pc, call, ret, exc, analysis, written, out>>

\* No value.
None ==
    [none |-> TRUE]

Call(op, text, text2, include_stop_words, file_path, file, save, output_file) ==
    [op |-> op, text |-> text, text2 |-> text2, include_stop_words |-> include_stop_words,
     file_path |-> file_path, file |-> file, save |-> save, output_file |-> output_file]

TextCall(op, text, include_stop_words) ==
    Call(op, text, <<>>, include_stop_words, "", NoFile, FALSE, "")

(***************************************************************************)
(* A caller of WordCounter: one call, then a second call on its result     *)
(* (clean_text again, save_analysis).                                      *)
(***************************************************************************)
Requests ==
    {TextCall("clean_text", text, TRUE) : text \in Texts}
    \cup {TextCall("count_characters", text, TRUE) : text \in Texts}
    \cup {TextCall("analyze_text", text, inc) : text \in Texts, inc \in BOOLEAN}
    \cup {Call("compare_texts", text1, text2, FALSE, "", NoFile, FALSE, "") :
            text1 \in ComparisonInputs, text2 \in ComparisonInputs}
    \cup {Call("analyze_file", <<>>, <<>>, inc, path, file, FALSE, "") :
            inc \in BOOLEAN, path \in FilePaths, file \in Files}

Init ==
    /\ pc = "start"
    /\ call \in Requests
    /\ ret = None
    /\ exc = "none"
    /\ analysis = None
    /\ written = None
    /\ out = <<>>

CleanText ==
    /\ pc = "start"
    /\ call.op = "clean_text"
    /\ ret' = [text |-> clean_text(call.text)]
    /\ pc' = "returned"
    /\ UNCHANGED <<call, exc, analysis, written, out>>

CleanTextAgain ==
    /\ pc = "returned"
    /\ call.op = "clean_text"
    /\ ret' = [text |-> ret.text, again |-> clean_text(ret.text)]
    /\ pc' = "returned_again"
    /\ UNCHANGED <<call, exc, analysis, written, out>>

CountCharacters ==
    /\ pc = "start"
    /\ call.op = "count_characters"
    /\ ret' = [stats |-> count_characters(call.text)]
    /\ pc' = "returned"
    /\ UNCHANGED <<call, exc, analysis, written, out>>

AnalyzeText ==
    /\ pc = "start"
    /\ call.op = "analyze_text"
    /\ ret' = [analysis |-> analyze_text(call.text, call.include_stop_words)]
    /\ analysis' = ret'.analysis
    /\ pc' = "returned"
    /\ UNCHANGED <<call, exc, written, out>>

AnalyzeFile ==
    /\ pc = "start"
    /\ call.op = "analyze_file"
    /\ LET result == analyze_file(call.file_path, call.include_stop_words, call.file)
       IN  IF result.raised = "none"
           THEN /\ ret' = [analysis |-> result.analysis]
                /\ analysis' = result.analysis
                /\ pc' = "returned"
                /\ UNCHANGED exc
           ELSE /\ exc' = result.raised
                /\ pc' = "raised"
                /\ UNCHANGED <<ret, analysis>>
    /\ UNCHANGED <<call, written, out>>

CompareTexts ==
    /\ pc = "start"
    /\ call.op = "compare_texts"
    /\ \E comparison \in compare_texts(call.text, call.text2) :
          ret' = [comparison |-> comparison]
    /\ pc' = "returned"
    /\ UNCHANGED <<call, exc, analysis, written, out>>

SaveAnalysis ==
    /\ pc = "returned"
    /\ call.op \in {"analyze_text", "analyze_file"}
    /\ \E output_file \in OutputFiles :
          /\ written' = save_analysis(analysis, output_file)
          /\ call' = [call EXCEPT !.save = TRUE, !.output_file = output_file]
    /\ analysis' = saved_analysis(analysis)
    /\ pc' = "saved"
    /\ UNCHANGED <<ret, exc, out>>

Next ==
    \/ CleanText
    \/ CleanTextAgain
    \/ CountCharacters
    \/ AnalyzeText
    \/ AnalyzeFile
    \/ CompareTexts
    \/ SaveAnalysis

Spec ==
    Init /\ [][Next]_vars

(***************************************************************************)
(* main(): the menu loop.  Nothing is kept from one iteration to the next, *)
(* so the state after an iteration is what that iteration read, computed,  *)
(* wrote and printed.                                                      *)
(***************************************************************************)
\* The lines the user can type, without their newline.
InputLines ==
    {<<>>, <<"c", "a", "t", ".">>, <<"T", "h", "e", " ", "d", "o", "g">>}

\* The most lines typed for one text, the closing empty lines included.
MaxTyped ==
    4

\* The loop that reads a text: it appends lines until an empty line follows
\* an empty line.  Returns the lines appended and how many were read.
RECURSIVE read_lines_from(_, _, _)
read_lines_from(typed, i, lines) ==
    IF i > Len(typed) THEN [done |-> FALSE, lines |-> lines, read |-> i - 1]
    ELSE IF typed[i] = <<>> /\ lines # <<>> /\ lines[Len(lines)] = <<>>
         THEN [done |-> TRUE, lines |-> lines, read |-> i]
         ELSE read_lines_from(typed, i + 1, Append(lines, typed[i]))

\* "\n".join(lines[:-1])
entered_text(typed) ==
    LET lines == read_lines_from(typed, 1, <<>>).lines
    IN  str_join(<<"\n">>, SubSeq(lines, 1, Len(lines) - 1))

\* What can be typed for one text: line sequences that the loop reads to the
\* end and no further.
TypedTexts ==
    {typed \in SeqsUpTo(InputLines, MaxTyped) :
        LET r == read_lines_from(typed, 1, <<>>) IN r.done /\ r.read = Len(typed)}

\* What can be typed for a file name: nothing, or a name.
TypedPaths ==
    {"", "notes.txt"}

TypedOutputFiles ==
    {"", "report.json"}

TypedSampleFiles ==
    {"", "demo.txt"}

\* Choices that are not menu options.
OtherChoices ==
    {"", "6"}

\* The exceptions main() catches around analyze_file.
CaughtByMain ==
    {"FileNotFoundError", "UnicodeDecodeError"}

\* input(...).strip() or default
or_default(typed, default) ==
    IF typed = "" THEN default ELSE typed

MainInit ==
    /\ pc = "menu"
    /\ call = Call("", <<>>, <<>>, FALSE, "", NoFile, FALSE, "")
    /\ ret = None
    /\ exc = "none"
    /\ analysis = None
    /\ written = None
    /\ out = <<>>

\* The report and the offer to save it, in options 1 and 2.
ReportAndSave(op, text, result, include_stop_words, file_path, file) ==
    \E save \in BOOLEAN :
        IF save
        THEN \E typed \in TypedOutputFiles :
                LET output_file == or_default(typed, "analysis.json")
                IN  /\ call' = Call(op, text, <<>>, include_stop_words,
                                    file_path, file, TRUE, output_file)
                    /\ written' = save_analysis(result, output_file)
                    /\ analysis' = saved_analysis(result)
                    /\ out' = <<"report", "saved">>
        ELSE /\ call' = Call(op, text, <<>>, include_stop_words, file_path, file, FALSE, "")
             /\ written' = None
             /\ analysis' = result
             /\ out' = <<"report">>

\* Option 1: analyze text input.
Option1 ==
    /\ pc = "menu"
    /\ \E typed \in TypedTexts :
          LET text == entered_text(typed)
          IN  IF str_strip(text) # <<>>
              THEN \E include_stop \in BOOLEAN :
                      ReportAndSave("1", text, analyze_text(text, include_stop),
                                    include_stop, "", NoFile)
              ELSE /\ call' = Call("1", text, <<>>, FALSE, "", NoFile, FALSE, "")
                   /\ out' = <<"no_text">>
                   /\ analysis' = None
                   /\ written' = None
    /\ ret' = None
    /\ UNCHANGED <<pc, exc>>

\* Option 2: analyze a file.
Option2 ==
    /\ pc = "menu"
    /\ ret' = None
    /\ \E file_path \in TypedPaths :
          IF file_path = ""
          THEN /\ call' = Call("2", <<>>, <<>>, FALSE, "", NoFile, FALSE, "")
               /\ out' = <<>>
               /\ analysis' = None
               /\ written' = None
               /\ UNCHANGED <<pc, exc>>
          ELSE \E include_stop \in BOOLEAN, file \in Files :
                  LET result == analyze_file(file_path, include_stop, file)
                  IN  CASE result.raised = "none" ->
                             /\ ReportAndSave("2", <<>>, result.analysis,
                                              include_stop, file_path, file)
                             /\ UNCHANGED <<pc, exc>>
                        [] result.raised \in CaughtByMain ->
                             /\ call' = Call("2", <<>>, <<>>, include_stop,
                                             file_path, file, FALSE, "")
                             /\ out' = <<"error">>
                             /\ analysis' = None
                             /\ written' = None
                             /\ UNCHANGED <<pc, exc>>
                        [] OTHER ->
                             /\ call' = Call("2", <<>>, <<>>, include_stop,
                                             file_path, file, FALSE, "")
                             /\ out' = <<>>
                             /\ analysis' = None
                             /\ written' = None
                             /\ exc' = result.raised
                             /\ pc' = "crashed"

\* Option 3: compare two texts.
Option3 ==
    /\ pc = "menu"
    /\ \E typed1 \in TypedTexts, typed2 \in TypedTexts :
          LET text1 == entered_text(typed1)
              text2 == entered_text(typed2)
          IN  /\ call' = Call("3", text1, text2, FALSE, "", NoFile, FALSE, "")
              /\ IF str_strip(text1) # <<>> /\ str_strip(text2) # <<>>
                 THEN /\ \E comparison \in compare_texts(text1, text2) :
                            ret' = [comparison |-> comparison]
                      /\ out' = <<"comparison">>
                 ELSE /\ ret' = None
                      /\ out' = <<"enter_both">>
    /\ analysis' = None
    /\ written' = None
    /\ UNCHANGED <<pc, exc>>

\* Option 4: create the sample file.
Option4 ==
    /\ pc = "menu"
    /\ \E typed \in TypedSampleFiles :
          LET filename == or_default(typed, "sample.txt")
          IN  /\ call' = Call("4", <<>>, <<>>, FALSE, "", NoFile, FALSE, filename)
              /\ written' = create_sample_file(filename)
    /\ out' = <<"sample_created">>
    /\ ret' = None
    /\ analysis' = None
    /\ UNCHANGED <<pc, exc>>

\* Option 5: exit.
Option5 ==
    /\ pc = "menu"
    /\ call' = Call("5", <<>>, <<>>, FALSE, "", NoFile, FALSE, "")
    /\ out' = <<"goodbye">>
    /\ pc' = "exited"
    /\ ret' = None
    /\ analysis' = None
    /\ written' = None
    /\ UNCHANGED exc

\* Any other choice.
InvalidOption ==
    /\ pc = "menu"
    /\ \E choice \in OtherChoices :
          call' = Call(choice, <<>>, <<>>, FALSE, "", NoFile, FALSE, "")
    /\ out' = <<"invalid">>
    /\ ret' = None
    /\ analysis' = None
    /\ written' = None
    /\ UNCHANGED <<pc, exc>>

MainNext ==
    \/ Option1
    \/ Option2
    \/ Option3
    \/ Option4
    \/ Option5
    \/ InvalidOption

MainSpec ==
    MainInit /\ [][MainNext]_vars

(***************************************************************************)
(* Properties                                                              *)
(***************************************************************************)
\* The call has returned a value.
Returned(op) ==
    call.op = op /\ pc = "returned"

\* C1: analyze_file raises FileNotFoundError when the path does not exist,
\* raises UnicodeDecodeError when the file is not valid UTF-8, and otherwise
\* returns analyze_text of the content with file_path and file_size_bytes
\* attached.
C1_AnalyzeFileOutcomes ==
    (call.op = "analyze_file" /\ pc \in {"returned", "raised"}) =>
        /\ ~call.file.exists => (pc = "raised" /\ exc = "FileNotFoundError")
        /\ (call.file.exists /\ ~call.file.utf8) =>
               (pc = "raised" /\ exc = "UnicodeDecodeError")
        /\ (call.file.exists /\ call.file.utf8) =>
               /\ pc = "returned"
               /\ ret.analysis.file_path = call.file_path
               /\ ret.analysis.file_size_bytes = getsize(call.file.content)
               /\ \A f \in DOMAIN ret.analysis \ {"file_path", "file_size_bytes"} :
                     ret.analysis[f] =
                         analyze_text(call.file.content, call.include_stop_words)[f]

\* The fox scenario has been analyzed, stop words included.
C2_FoxAnalyzed ==
    Returned("analyze_text") /\ call.text = FoxText /\ call.include_stop_words

\* C2 as stated: the fox scenario, stop words included, has word_count 8,
\* sentence_count 2 and frequency 2 for "the".
C2_FoxScenarioAsStated ==
    C2_FoxAnalyzed =>
        /\ ret.analysis.word_count = 8
        /\ ret.analysis.sentence_count = 2
        /\ count_of(ret.analysis.word_frequency, "the") = 2

\* C2 amended: the fox scenario, stop words included, has word_count 7,
\* sentence_count 2 and frequency 2 for "the".
C2_FoxScenario ==
    C2_FoxAnalyzed =>
        /\ ret.analysis.word_count = 7
        /\ ret.analysis.sentence_count = 2
        /\ count_of(ret.analysis.word_frequency, "the") = 2

\* Where word first occurs in the token sequence.
FirstOccurrence(tokens, word) ==
    CHOOSE i \in DOMAIN tokens :
        tokens[i] = word /\ \A j \in DOMAIN tokens : tokens[j] = word => i <= j

\* item1 ranks before item2: a higher count, or the same count and an
\* earlier first occurrence.
RanksBefore(tokens, item1, item2) ==
    \/ item1[2] > item2[2]
    \/ /\ item1[2] = item2[2]
       /\ FirstOccurrence(tokens, item1[1]) < FirstOccurrence(tokens, item2[1])

\* C3: most_common_words is the min(10, unique_words) items of word_frequency
\* that rank first, in rank order: by count descending, equal counts in the
\* order of first occurrence; no excluded word ranks before an included one.
C3_MostCommonOrder ==
    Returned("analyze_text") =>
        LET a      == ret.analysis
            top    == a.most_common_words
            items  == a.word_frequency.items
            tokens == extract_words(call.text, call.include_stop_words)
            all    == {items[i] : i \in DOMAIN items}
            shown  == {top[i] : i \in DOMAIN top}
        IN  /\ Len(top) = IF a.unique_words < 10 THEN a.unique_words ELSE 10
            /\ shown \subseteq all
            /\ \A item \in all : item[2] = Cardinality({i \in DOMAIN tokens : tokens[i] = item[1]})
            /\ \A i, j \in DOMAIN top : i < j => RanksBefore(tokens, top[i], top[j])
            /\ \A out_item \in all \ shown : \A in_item \in shown :
                  RanksBefore(tokens, in_item, out_item)

\* A text of more than ten distinct words whose tenth and eleventh have the
\* same count, and in whose top ten two words tie, has been analyzed.
C3_TieAtTheCut ==
    /\ Returned("analyze_text")
    /\ ret.analysis.unique_words > 10
    /\ LET top   == ret.analysis.most_common_words
           items == ret.analysis.word_frequency.items
       IN  /\ \E i \in DOMAIN items :
                 /\ \A j \in DOMAIN top : top[j] # items[i]
                 /\ items[i][2] = top[Len(top)][2]
           /\ \E i, j \in DOMAIN top : i < j /\ top[i][2] = top[j][2] /\ top[i][2] > 1

\* The number of characters of text that are in S.
CountIn(text, S) ==
    Cardinality({i \in DOMAIN text : text[i] \in S})

\* The counts that do not depend on how a non-ASCII letter is classed.
C4_OtherBuckets ==
    /\ ret.stats.total_chars = Len(call.text)
    /\ ret.stats.chars_no_spaces = Len(call.text) - CountIn(call.text, {" "})
    /\ ret.stats.alphabetic_chars = CountIn(call.text, AsciiLetters)
    /\ ret.stats.numeric_chars = CountIn(call.text, AsciiDigits)
    /\ ret.stats.spaces = CountIn(call.text, {" "})

\* C4 as stated: a non-ASCII letter is counted in total_chars and
\* chars_no_spaces and in no other bucket: punctuation counts the characters
\* that are neither ASCII letters, ASCII digits, whitespace nor non-ASCII
\* letters.
C4_NonAsciiInNoBucketAsStated ==
    Returned("count_characters") =>
        /\ C4_OtherBuckets
        /\ ret.stats.punctuation =
              Len(call.text) - CountIn(call.text, AsciiLetters \cup AsciiDigits
                                                  \cup Whitespace \cup NonAsciiLetters)

\* C4 amended: a non-ASCII letter is counted in total_chars, chars_no_spaces
\* and punctuation, and not in alphabetic_chars, numeric_chars or spaces:
\* punctuation counts every character that is neither an ASCII letter, an
\* ASCII digit nor whitespace.
C4_NonAsciiInPunctuation ==
    Returned("count_characters") =>
        /\ C4_OtherBuckets
        /\ ret.stats.punctuation =
              Len(call.text) - CountIn(call.text, AsciiLetters \cup AsciiDigits \cup Whitespace)
        /\ ret.stats.punctuation >= CountIn(call.text, NonAsciiLetters)

\* The characters of a text with a non-ASCII letter have been counted.
C4_NonAsciiCounted ==
    /\ Returned("count_characters")
    /\ CountIn(call.text, NonAsciiLetters) > 0
    /\ CountIn(call.text, NonAsciiLetters) < Len(call.text)

\* The vocabulary of one side of a comparison: the keys of its frequency table.
Vocabulary(stats) ==
    {stats.word_frequency.items[i][1] : i \in DOMAIN stats.word_frequency.items}

\* C5: comparing a text of non-empty vocabulary with itself gives
\* similarity_ratio 1.0 and no words unique to either side.
C5_CompareWithSelf ==
    (/\ Returned("compare_texts")
     /\ call.text = call.text2
     /\ Vocabulary(ret.comparison.text1_stats) # {}) =>
        /\ ret.comparison.similarity_ratio.num = ret.comparison.similarity_ratio.den
        /\ ret.comparison.similarity_ratio.den > 0
        /\ ret.comparison.unique_to_text1 = <<>>
        /\ ret.comparison.unique_to_text2 = <<>>

\* A text of two distinct words and a stop word has been compared with itself.
C5_ComparedWithSelf ==
    /\ Returned("compare_texts")
    /\ call.text = call.text2
    /\ Cardinality(Vocabulary(ret.comparison.text1_stats)) = 2

\* C6: common_words_count is the size of the intersection of the two
\* vocabularies (stop words excluded) and similarity_ratio is that size over
\* the size of their union, 0 with no error when both are empty; so the ratio
\* is in [0, 1], and disjoint vocabularies give ratio 0 and count 0.
C6_Similarity ==
    Returned("compare_texts") =>
        LET c      == ret.comparison
            vocab1 == Vocabulary(c.text1_stats)
            vocab2 == Vocabulary(c.text2_stats)
            common == Cardinality(vocab1 \cap vocab2)
            union  == Cardinality(vocab1 \cup vocab2)
        IN  /\ exc = "none"
            /\ (vocab1 \cup vocab2) \cap stop_words = {}
            /\ c.common_words_count = common
            /\ c.similarity_ratio.den > 0
            /\ c.similarity_ratio.num * union = common * c.similarity_ratio.den
            /\ union = 0 => c.similarity_ratio.num = 0
            /\ 0 <= c.similarity_ratio.num
            /\ c.similarity_ratio.num <= c.similarity_ratio.den
            /\ vocab1 \cap vocab2 = {} =>
                  (c.similarity_ratio.num = 0 /\ c.common_words_count = 0)

\* Two texts that share one word and differ in another have been compared.
C6_PartialOverlap ==
    /\ Returned("compare_texts")
    /\ ret.comparison.common_words_count = 1
    /\ ret.comparison.unique_to_text1 # <<>>
    /\ ret.comparison.unique_to_text2 # <<>>

\* Lowercase ASCII letters separated by single spaces, no space at either end.
IsNormalized(text) ==
    /\ \A i \in DOMAIN text :
          text[i] \in {AsciiLower[k] : k \in DOMAIN AsciiLower} \cup {" "}
    /\ \A i \in DOMAIN text : (text[i] = " ") => (i > 1 /\ i < Len(text) /\ text[i + 1] # " ")

\* C7: clean_text of a clean_text output is that output, and the output is
\* lowercase ASCII letters separated by single spaces, with no whitespace at
\* either end.
C7_CleanTextIdempotent ==
    /\ Returned("clean_text") => IsNormalized(ret.text)
    /\ (call.op = "clean_text" /\ pc = "returned_again") =>
          (ret.again = ret.text /\ IsNormalized(ret.again))

\* A text that clean_text changed, into two words, has been cleaned twice.
C7_CleanedTwice ==
    /\ call.op = "clean_text"
    /\ pc = "returned_again"
    /\ ret.text # call.text
    /\ CountIn(ret.text, {" "}) = 1

\* C8: save_analysis leaves the analysis it is given unchanged: after it, the
\* caller's analysis is what analyze_text returned, its word_frequency still
\* the Counter.
C8_SaveLeavesAnalysisUnchanged ==
    pc = "saved" => analysis = ret.analysis

\* The sentences of a text, counted from the text: the starts of the
\* fragments between terminators that hold a character that is not whitespace.
SentenceCount(text) ==
    LET Terminators == {".", "!", "?"}
    IN  Cardinality({i \in DOMAIN text :
            /\ text[i] \notin Terminators
            /\ (i = 1 \/ text[i - 1] \in Terminators)
            /\ \E j \in i..Len(text) :
                  /\ text[j] \notin Whitespace
                  /\ \A k \in i..j : text[k] \notin Terminators})

\* C9 as stated: avg_sentence_length is word_count / sentence_count, and 0
\* when there is no sentence.
C9_AvgSentenceLengthAsStated ==
    Returned("analyze_text") =>
        LET a == ret.analysis
            words     == Len(extract_words(call.text, call.include_stop_words))
            sentences == SentenceCount(call.text)
        IN  /\ a.word_count = words
            /\ a.sentence_count = sentences
            /\ a.avg_sentence_length * sentences = 100 * words
            /\ sentences = 0 => a.avg_sentence_length = 0

\* C9 amended: avg_sentence_length is word_count / sentence_count rounded to
\* two decimal places, and 0 when there is no sentence.
C9_AvgSentenceLength ==
    Returned("analyze_text") =>
        LET a == ret.analysis
            words     == Len(extract_words(call.text, call.include_stop_words))
            sentences == SentenceCount(call.text)
            error     == 100 * words - a.avg_sentence_length * sentences
        IN  /\ a.word_count = words
            /\ a.sentence_count = sentences
            /\ 2 * error <= sentences
            /\ -2 * error <= sentences
            /\ sentences = 0 => a.avg_sentence_length = 0

\* A text whose words per sentence is not a whole number of hundredths has
\* been analyzed.
C9_Rounded ==
    /\ Returned("analyze_text")
    /\ ret.analysis.sentence_count > 0
    /\ (100 * ret.analysis.word_count) % ret.analysis.sentence_count # 0
    /\ 2 * ((100 * ret.analysis.word_count) % ret.analysis.sentence_count)
          > ret.analysis.sentence_count

\* C10: in main(), a file analysis that fails under option 2 (no such file,
\* or not UTF-8) prints an error and returns to the menu; the loop ends only
\* when option 5 is chosen.
C10_FileFailureReturnsToMenu ==
    /\ (call.op = "2" /\ call.file_path # "" /\ ~(call.file.exists /\ call.file.utf8)) =>
          (pc = "menu" /\ out = <<"error">>)
    /\ pc # "menu" => (pc = "exited" /\ call.op = "5")

====
